---- MODULE Spec2Model ----
(***************************************************************************)
(* Model of the batch worker: BatchService.generateContents and the       *)
(* services it drives (BraveSearchService.searchByKeyword,                *)
(* CrawlingService.crawlWebsite / isUrlAllowed, the article and quiz      *)
(* transactions of the store).                                            *)
(*                                                                         *)
(* src/src/batch/brave-search.service.ts holds two definitions of         *)
(* BatchService (lines 64-381 and 402-628).  They differ in the place of  *)
(* findKeyword and in the publish date of the articles.  The variable     *)
(* `copy` says which definition is the one wired into the worker.         *)
(*                                                                         *)
(* One worker process runs one job at a time (BatchConsumer.process       *)
(* awaits generateContents), so in Spec invocations do not overlap.       *)
(* Article rows refer to a keyword row: an id absent from the keyword     *)
(* table has no article.  Reads of the store succeed; creates and commits *)
(* may fail.  A task that is still pending when Promise.all rejects       *)
(* settles later without any effect on the state, so it is left as it was *)
(* when the invocation ended.                                             *)
(*                                                                         *)
(* Four specifications share the module.  Spec follows generateContents;  *)
(* FairSpec is Spec with every started call settling.  SpecBM25 follows   *)
(* BM25Service (src/unnamed/part_002) from the array of crawl results to  *)
(* the list search returns; SpecExtract follows                           *)
(* CrawlingService.extractContent over small pages; SpecOverlap follows   *)
(* the article steps of two invocations for one keyword, as two worker    *)
(* processes on the queue produce them.  Each leaves the variables of the *)
(* others as they are.  Scores are fixed-point numbers with six decimals  *)
(* where the program has doubles.                                         *)
(***************************************************************************)
EXTENDS Integers, Sequences, FiniteSets, TLC

\* ---------------------------------------------------------------- bounds
MaxResults == 2     \* search results returned by one search
MaxQuiz == 1        \* quiz items the generation service returns per article
MaxDocs == 2        \* crawl results handed to the index
MaxElems == 2       \* top-level elements of a crawled page

\* ------------------------------------------------------ program constants
NumPrompts == 5     \* the five prompts built by createPrompts

KeywordIds == {1, 2}
\* the origins (scheme + host + port) of the urls the search returns
Origins == {"a.example", "b.example"}
\* a result whose url is not an absolute url: new URL(targetUrl) throws
MalformedUrl == "malformed"
Urls == Origins \cup {MalformedUrl}
Copies == {1, 2}

KEYWORD_NOT_FOUND == "KEYWORD_NOT_FOUND"
CONTENTS_ALREADY_EXISTS == "CONTENTS_ALREADY_EXISTS"
BRAVE_SEARCH_API_REQUEST_FAILED == "BRAVE_SEARCH_API_REQUEST_FAILED"
KEYWORD_DATE_NOT_EXISTS == "KEYWORD_DATE_NOT_EXISTS"
\* errors that are not ERROR_MESSAGE entries: what the collaborators throw
GENERATION_ERROR == "GENERATION_ERROR"
STORE_ERROR == "STORE_ERROR"
ABORT_ERROR == "ABORT_ERROR"
SYNTAX_ERROR == "SYNTAX_ERROR"

VARIABLES
    copy,         \* which BatchService definition runs: 1 (l.64-381) or 2 (l.402-628)
    keyword,      \* keyword table: id -> "absent" | "nodate" | "dated"
    articles,     \* committed articles: keyword id -> number of article rows
    quizzes,      \* committed quiz rows: keyword id -> (article index -> count)
    robotsCache,  \* CrawlingService.robotsCache: origin -> "none" | "allow" | "deny"
    pc,           \* position of the worker inside generateContents
    kid,          \* keywordId of the running (or last) invocation
    branch,       \* "none" | "quizOnly" (call at l.84) | "full" (l.91-95)
    result,       \* "none" while running, "ok", or the error thrown
    issued,       \* kinds of outbound calls issued by this invocation
    entry,        \* the keyword's rows when the invocation began, and how the
                  \* invocation before it ended
    results,      \* searchResults: sequence of origins of the candidate urls
    crawl,        \* crawl tasks: one [pc, robots, out] per search result
    validDocs,    \* indices of the documents handed to BM25Service
    tasks,        \* the tasks of the current Promise.all batch
    txArticles,   \* rows inserted inside the open article transaction
    txQuiz        \* rows inserted inside the open quiz transaction, per article

vars == <<copy, keyword, articles, quizzes, robotsCache, pc, kid, branch,
          result, issued, entry, results, crawl, validDocs, tasks,
          txArticles, txQuiz>>

store == <<articles, quizzes>>
locals == <<results, crawl, validDocs, tasks, txArticles, txQuiz>>

\* BM25Service (src/unnamed/part_002) as generateRelatedData l.140-161 uses it
VARIABLES
    crawledArr,           \* what the crawl tasks resolved to: documents and nulls
    bm25Service,          \* "none", or "built" once new BM25Service has run
    documents,            \* BM25Service.documents (validDocs), in input order
    docLengths,           \* title -> number of tokens
    avgDocLength,         \* [num, den]: totalLength / documents.length
    termFrequencies,      \* title -> (term -> frequency)
    documentCntsHasTerm,  \* term -> recorded document frequency
    idfCache,             \* term -> memoised IDF
    found                 \* the last search call: its arguments, the scores it
                          \* computed and the list it returned

bm25Vars == <<crawledArr, bm25Service, documents, docLengths, avgDocLength, termFrequencies,
              documentCntsHasTerm, idfCache, found>>

\* CrawlingService.extractContent (crawling.service.ts l.55-71)
VARIABLES
    html,                 \* the top-level elements of the page, in document order
    extracted             \* [done, texts]: the texts extractContent returned

extractVars == <<html, extracted>>

\* two invocations of generateContents for one keyword that overlap
VARIABLES
    jobs                  \* invocation -> [pc, tx, result]; tx counts the rows
                          \* inserted inside its open article transaction

\* what no step of generateContents touches: the wiring of the worker, and the
\* state of the index, of the extraction and of the overlapping invocations,
\* which are followed on their own
fixed == <<copy, bm25Vars, extractVars, jobs>>

ArticleIdx == 1..NumPrompts
NoQuiz == [a \in ArticleIdx |-> 0]

\* ---------------------------------------------------------------- helpers
\* mutant of ArticleExists: the check never finds an article
ArticleExistsNever(k) == FALSE

\* mutant of QuizExists: the check never finds a quiz
QuizExistsNever(k) == FALSE

\* mutant of AllFulfilled: Promise.allSettled, a rejected task is skipped
AllSettled(ts) == \A i \in DOMAIN ts : ts[i].st \in {"ok", "failed"}

\* prisma.article.findFirst({where: {keywordId}}) !== null
ArticleExists(k) == articles[k] > 0

\* prisma.quiz.findFirst({where: {Article: {keywordId}}}) !== null
QuizExists(k) == \E a \in 1..articles[k] : quizzes[k][a] > 0

Pending(n) == [i \in 1..n |-> [st |-> "pending", n |-> 0]]

\* Promise.all rejects as soon as one task has rejected
AnyRejected(ts) == \E i \in DOMAIN ts : ts[i].st = "failed"

\* Promise.all resolves once every task has fulfilled
AllFulfilled(ts) == \A i \in DOMAIN ts : ts[i].st = "ok"

\* mutant of Keep: the length of the joined text is not tested
KeepNonNull(s, n) == SelectSeq([i \in 1..n |-> i], LAMBDA i : s[i].out # "null")

\* l.140-146: the crawled documents that are not null and whose joined text
\* is at most MAX_TEXT_LENGTH_FOR_BM25 long, in the order of the search results
RECURSIVE Keep(_, _)
Keep(s, n) ==
    IF n = 0 THEN <<>>
    ELSE IF s[n].out = "small" THEN Append(Keep(s, n - 1), n)
         ELSE Keep(s, n - 1)

\* no index has been built, nothing has been searched
NoSearch == [query |-> <<>>, topK |-> 0, scores |-> <<>>, ratios |-> {},
             ranked |-> <<>>, again |-> FALSE]

Bm25Off ==
    /\ crawledArr = <<>>
    /\ bm25Service = "none"
    /\ documents = <<>>
    /\ docLengths = <<>>
    /\ avgDocLength = [num |-> 0, den |-> 1]
    /\ termFrequencies = <<>>
    /\ documentCntsHasTerm = <<>>
    /\ idfCache = <<>>
    /\ found = NoSearch

\* no page is being extracted
NotExtracted == [done |-> FALSE, texts |-> <<>>]

ExtractOff ==
    /\ html = <<>>
    /\ extracted = NotExtracted

\* no overlapping invocations
NoJobs == <<>>

Init ==
    /\ Bm25Off
    /\ ExtractOff
    /\ jobs = NoJobs
    /\ copy \in Copies
    /\ keyword \in {[k \in KeywordIds |-> IF k = 1 THEN s ELSE "absent"] :
                       s \in {"nodate", "dated"}}
    /\ articles = [k \in KeywordIds |-> 0]
    /\ quizzes = [k \in KeywordIds |-> NoQuiz]
    /\ robotsCache = [o \in Origins |-> "none"]
    /\ pc = "idle"
    /\ kid = 1
    /\ branch = "none"
    /\ result = "none"
    /\ issued = {}
    /\ entry = [articles |-> 0, quizzes |-> NoQuiz, prev |-> "other"]
    /\ results = <<>>
    /\ crawl = <<>>
    /\ validDocs = <<>>
    /\ tasks = <<>>
    /\ txArticles = 0
    /\ txQuiz = NoQuiz

\* the worker idle, as constructed, while the index or the extraction is
\* followed on its own
Parked ==
    /\ copy = 1
    /\ keyword = [k \in KeywordIds |-> IF k = 1 THEN "dated" ELSE "absent"]
    /\ articles = [k \in KeywordIds |-> 0]
    /\ quizzes = [k \in KeywordIds |-> NoQuiz]
    /\ robotsCache = [o \in Origins |-> "none"]
    /\ pc = "idle"
    /\ kid = 1
    /\ branch = "none"
    /\ result = "none"
    /\ issued = {}
    /\ entry = [articles |-> 0, quizzes |-> NoQuiz, prev |-> "other"]
    /\ results = <<>>
    /\ crawl = <<>>
    /\ validDocs = <<>>
    /\ tasks = <<>>
    /\ txArticles = 0
    /\ txQuiz = NoQuiz

\* ------------------------------------------------------------ control flow
Running == pc \notin {"idle", "done"}

\* an exception leaves generateContents: the worker reports the job failed
Throw(err) ==
    /\ pc' = "done"
    /\ result' = err

\* copy 1 checks the articles first (l.78) and resolves the keyword at l.91;
\* copy 2 resolves the keyword first (l.416) and checks the articles at l.418
FirstStep(c) == IF c = 1 THEN "isArticleExists" ELSE "findKeyword"

AfterNoArticle(c) == IF c = 1 THEN "findKeyword" ELSE "searchByKeyword"

AfterFindKeyword(c) == IF c = 1 THEN "searchByKeyword" ELSE "isArticleExists"

\* copy 1 reads the publish date before building the rows (l.234);
\* copy 2 stamps the rows with new Date() (l.542)
AfterSummaries(c) == IF c = 1 THEN "getKeywordPublishedDate" ELSE "articleTx"

\* BatchConsumer.process -> generateContents(keywordId), entry of the method
generateContents(k) ==
    /\ pc \in {"idle", "done"}
    /\ pc' = FirstStep(copy)
    /\ kid' = k
    /\ branch' = "none"
    /\ result' = "none"
    /\ issued' = {}
    /\ entry' = [articles |-> articles[k],
                 quizzes |-> quizzes[k],
                 prev |-> IF pc = "idle" \/ kid # k THEN "other"
                          ELSE IF result = "ok" THEN "ok"
                          ELSE IF "articleCommit" \in issued THEN "quizFailed"
                          ELSE "other"]
    /\ results' = <<>>
    /\ crawl' = <<>>
    /\ validDocs' = <<>>
    /\ tasks' = <<>>
    /\ txArticles' = 0
    /\ txQuiz' = NoQuiz
    /\ UNCHANGED <<fixed, keyword, store, robotsCache>>

isArticleExists ==
    /\ pc = "isArticleExists"
    /\ issued' = issued \cup {"articleCheck"}
    /\ pc' = IF ArticleExists(kid) THEN "isQuizExists" ELSE AfterNoArticle(copy)
    /\ branch' = IF ArticleExists(kid) THEN branch ELSE "full"
    /\ UNCHANGED <<fixed, keyword, store, robotsCache, kid, result, entry, locals>>

isQuizExists ==
    /\ pc = "isQuizExists"
    /\ issued' = issued \cup {"quizCheck"}
    /\ IF QuizExists(kid)
       THEN /\ Throw(CONTENTS_ALREADY_EXISTS)
            /\ UNCHANGED branch
       ELSE /\ pc' = "findMany"
            /\ branch' = "quizOnly"
            /\ UNCHANGED result
    /\ UNCHANGED <<fixed, keyword, store, robotsCache, kid, entry, locals>>

\* mutant of KeywordMissing: findKeyword never throws
KeywordMissingNever(k) == FALSE

\* findKeyword l.105-118: findUnique returns null
KeywordMissing(k) == keyword[k] = "absent"

findKeyword ==
    /\ pc = "findKeyword"
    /\ issued' = issued \cup {"findKeyword"}
    /\ IF KeywordMissing(kid)
       THEN Throw(KEYWORD_NOT_FOUND)
       ELSE /\ pc' = AfterFindKeyword(copy)
            /\ UNCHANGED result
    /\ UNCHANGED <<fixed, keyword, store, robotsCache, kid, branch, entry, locals>>

\* ------------------------------------------------------------------ search
\* responses of the search API: a 2xx body, a non-2xx status with a JSON body,
\* a non-2xx status whose body is not JSON, and a fetch that aborts
SearchResponses == {"ok", "errJson", "errText", "abort"}

SearchError(resp) ==
    CASE resp = "errJson" -> BRAVE_SEARCH_API_REQUEST_FAILED
      [] resp = "errText" -> SYNTAX_ERROR
      [] OTHER -> ABORT_ERROR

ResultLists == UNION {[1..n -> Urls] : n \in 0..MaxResults}

\* ------------------------------------------------------------------- crawl
\* outcomes of fetchWithTimeout(robotsUrl) and of reading and parsing the body:
\*   "abort"  the fetch timed out (AbortError)
\*   "error"  a network error, or response.text() threw
\*   "status" a response that is not ok
\*   "allow" / "deny"  robots.isAllowed(targetUrl, userAgent) ?? true
RobotsOutcomes == {"abort", "error", "status", "allow", "deny"}

\* mutant of IsAllowedOn: every failure of the robots fetch denies
IsAllowedOnFailClosed(outcome) == outcome = "allow"

\* mutant of CacheSetOn: the decision taken on a timeout is cached too
CacheSetOnAlways(outcome) == TRUE

\* the value isUrlAllowed returns after the fetch (l.95-98, l.99-111)
IsAllowedOn(outcome) == outcome \in {"allow", "error", "status"}

\* whether isUrlAllowed runs robotsCache.set (l.96, l.109; not on l.100-103)
CacheSetOn(outcome) == outcome # "abort"

CacheValue(allowed) == IF allowed THEN "allow" ELSE "deny"

\* outcomes of fetchWithTimeout(url) in crawlWebsite and of the extraction:
\*   "abort" / "error"  the fetch threw, "status" the response is not ok,
\*   "small" / "big"    a document whose joined text is <= / > 1000 characters
PageOutcomes == {"abort", "error", "status", "small", "big"}

\* mutant of CrawlOut: a failed page fetch is handed on as it is
CrawlOutRaw(outcome) == outcome

\* crawlWebsite l.31-52: the document, or null when the response is not ok
\* (l.36-38) or the fetch threw (l.40-52)
CrawlOut(outcome) == IF outcome \in {"small", "big"} THEN outcome ELSE "null"

\* mutant of isUrlAllowed: the cache is not consulted
isUrlAllowedUncached(o) ==
    IF o = MalformedUrl
    THEN [pc |-> "done", robots |-> "threw", out |-> "null"]
    ELSE [pc |-> "robots", robots |-> "none", out |-> "none"]

\* crawlWebsite l.25 -> isUrlAllowed l.77-86, run for a url of origin o up to
\* its first network request.  new URL(targetUrl) (l.77) stands before the try
\* block: for a malformed url isUrlAllowed throws, and the catch of
\* crawlWebsite (l.40-52) returns null.  On a cache miss the robots.txt fetch
\* is issued (l.86); on a hit the cached decision is returned with no request,
\* and crawlWebsite either issues the page fetch (l.31) or returns null (l.28)
isUrlAllowed(o) ==
    IF o = MalformedUrl
    THEN [pc |-> "done", robots |-> "threw", out |-> "null"]
    ELSE IF robotsCache[o] = "none"
    THEN [pc |-> "robots", robots |-> "none", out |-> "none"]
    ELSE IF robotsCache[o] = "allow"
    THEN [pc |-> "page", robots |-> "cached", out |-> "none"]
    ELSE [pc |-> "done", robots |-> "cached", out |-> "null"]

\* the requests in flight once the tasks cs have been started
Requests(cs) ==
    {"robots" : i \in {j \in DOMAIN cs : cs[j].pc = "robots"}}
    \cup {"page" : i \in {j \in DOMAIN cs : cs[j].pc = "page"}}

\* generateRelatedData l.127-138: the search, then one crawl task per result.
\* The tasks are started in the same turn of the event loop, each running to
\* its first await before any response can arrive
searchByKeyword ==
    /\ pc = "searchByKeyword"
    /\ \E resp \in SearchResponses :
         IF resp = "ok"
         THEN \E rs \in ResultLists :
                /\ results' = rs
                /\ crawl' = [i \in DOMAIN rs |-> isUrlAllowed(rs[i])]
                /\ issued' = issued \cup {"search"} \cup Requests(crawl')
                /\ pc' = "crawl"
                /\ UNCHANGED result
         ELSE /\ Throw(SearchError(resp))
              /\ issued' = issued \cup {"search"}
              /\ UNCHANGED <<results, crawl>>
    /\ UNCHANGED <<fixed, keyword, store, robotsCache, kid, branch, entry,
                   validDocs, tasks, txArticles, txQuiz>>

\* mutant of Disallowed: after a timeout the task waits on
DisallowedHangs(outcome) ==
    [pc |-> IF outcome = "abort" THEN "hung" ELSE "done",
     robots |-> outcome, out |-> "null"]

\* crawlWebsite l.25-29: isUrlAllowed returned false (the body disallows the
\* url, or the fetch timed out, l.100-103), the task ends with null
Disallowed(outcome) == [pc |-> "done", robots |-> outcome, out |-> "null"]

\* isUrlAllowed l.86-111: the robots.txt fetch settles
robotsResponse(i) ==
    /\ pc = "crawl"
    /\ i \in DOMAIN crawl
    /\ crawl[i].pc = "robots"
    /\ \E outcome \in RobotsOutcomes :
         /\ robotsCache' =
              IF CacheSetOn(outcome)
              THEN [robotsCache EXCEPT ![results[i]] = CacheValue(IsAllowedOn(outcome))]
              ELSE robotsCache
         /\ IF IsAllowedOn(outcome)
            THEN /\ crawl' = [crawl EXCEPT ![i] =
                                [pc |-> "page", robots |-> outcome, out |-> "none"]]
                 /\ issued' = issued \cup {"page"}
            ELSE /\ crawl' = [crawl EXCEPT ![i] = Disallowed(outcome)]
                 /\ UNCHANGED issued
    /\ UNCHANGED <<fixed, keyword, store, pc, kid, branch, result, entry,
                   results, validDocs, tasks, txArticles, txQuiz>>

\* crawlWebsite l.31-52: the page fetch settles
pageResponse(i) ==
    /\ pc = "crawl"
    /\ i \in DOMAIN crawl
    /\ crawl[i].pc = "page"
    /\ \E outcome \in PageOutcomes :
         crawl' = [crawl EXCEPT ![i].pc = "done", ![i].out = CrawlOut(outcome)]
    /\ UNCHANGED <<fixed, keyword, store, robotsCache, pc, kid, branch, result,
                   issued, entry, results, validDocs, tasks, txArticles, txQuiz>>

\* QuickLRU maxAge / maxSize: an entry has expired or is evicted.  QuickLRU
\* drops entries only when the cache is touched: an expired entry at the
\* lookup (l.81), the least recently used one at a set (l.96, l.109)
cacheExpire(o) ==
    /\ pc \in {"searchByKeyword", "crawl"}
    /\ robotsCache[o] # "none"
    /\ robotsCache' = [robotsCache EXCEPT ![o] = "none"]
    /\ UNCHANGED <<fixed, keyword, store, pc, kid, branch, result, issued, entry,
                   locals>>

\* mutant of AllCrawled: Promise.race, the first task to end ends the wait
AnyCrawled(cs) == \E i \in DOMAIN cs : cs[i].pc = "done"

\* Promise.all over the crawl tasks (l.134-138) resolves once each has resolved
AllCrawled(cs) == \A i \in DOMAIN cs : cs[i].pc = "done"

\* generateRelatedData l.134-146: Promise.all over the crawl tasks (none of
\* which rejects), then the two filters
crawlJoin ==
    /\ pc = "crawl"
    /\ AllCrawled(crawl)
    /\ validDocs' = Keep(crawl, Len(crawl))
    /\ pc' = "rank"
    /\ UNCHANGED <<fixed, keyword, store, robotsCache, kid, branch, result,
                   issued, entry, results, crawl, tasks, txArticles, txQuiz>>

\* generateRelatedData l.152-161, createPrompts l.169-195 and generateArticles
\* l.210-218: the index is built and queried, the five prompts are built and
\* the five generateObjFromAi calls are issued
createPrompts ==
    /\ pc = "rank"
    /\ pc' = "generateObj"
    /\ tasks' = Pending(NumPrompts)
    /\ issued' = issued \cup {"genContent"}
    /\ results' = <<>>
    /\ crawl' = <<>>
    /\ validDocs' = <<>>
    /\ UNCHANGED <<fixed, keyword, store, robotsCache, kid, branch, result,
                   entry, txArticles, txQuiz>>

\* -------------------------------------------------------------- generation
GenStages == {"generateObj", "generateText", "generateQuiz"}

\* the sizes of the quiz array a generateObjFromAi(quizArraySchema) call returns
QuizCounts == 0..MaxQuiz

\* aiService.generateObjFromAi / generateTextFromAi settles for task i:
\* it fulfils (with n quiz items in the quiz stage) or rejects
generationResponse(i) ==
    /\ pc \in GenStages
    /\ i \in DOMAIN tasks
    /\ tasks[i].st = "pending"
    /\ \/ \E n \in (IF pc = "generateQuiz" THEN QuizCounts ELSE {0}) :
            tasks' = [tasks EXCEPT ![i] = [st |-> "ok", n |-> n]]
       \/ tasks' = [tasks EXCEPT ![i] = [st |-> "failed", n |-> 0]]
    /\ UNCHANGED <<fixed, keyword, store, robotsCache, pc, kid, branch, result,
                   issued, entry, results, crawl, validDocs, txArticles, txQuiz>>

\* Promise.all rejects (l.210, l.224, l.274): generateContents throws while the
\* other tasks of the batch may still be pending
generationRejected ==
    /\ pc \in GenStages
    /\ AnyRejected(tasks)
    /\ Throw(GENERATION_ERROR)
    /\ UNCHANGED <<fixed, keyword, store, robotsCache, kid, branch, issued,
                   entry, locals>>

\* generateArticles l.210-231: the five contents are there, the five
\* generateTextFromAi calls are issued
contentsGenerated ==
    /\ pc = "generateObj"
    /\ AllFulfilled(tasks)
    /\ pc' = "generateText"
    /\ tasks' = Pending(NumPrompts)
    /\ issued' = issued \cup {"genSummary"}
    /\ UNCHANGED <<fixed, keyword, store, robotsCache, kid, branch, result,
                   entry, results, crawl, validDocs, txArticles, txQuiz>>

\* generateArticles l.224-234 (copy 1), l.530-546 (copy 2)
summariesGenerated ==
    /\ pc = "generateText"
    /\ AllFulfilled(tasks)
    /\ pc' = AfterSummaries(copy)
    /\ tasks' = <<>>
    /\ txArticles' = 0
    /\ UNCHANGED <<fixed, keyword, store, robotsCache, kid, branch, result,
                   issued, entry, results, crawl, validDocs, txQuiz>>

\* getKeywordPublishedDate l.357-380 (copy 1 only)
getKeywordPublishedDate ==
    /\ pc = "getKeywordPublishedDate"
    /\ issued' = issued \cup {"publishDate"}
    /\ IF keyword[kid] = "absent" THEN Throw(KEYWORD_NOT_FOUND)
       ELSE IF keyword[kid] = "nodate" THEN Throw(KEYWORD_DATE_NOT_EXISTS)
       ELSE /\ pc' = "articleTx"
            /\ UNCHANGED result
    /\ UNCHANGED <<fixed, keyword, store, robotsCache, kid, branch, entry, locals>>

\* ------------------------------------------------------------ transactions
\* mutant of ArticleRollback: the rows created before the failure stay
ArticleRollbackPartial(committed, pending) == committed + pending

\* mutant of QuizRollback: the rows created before the failure stay
QuizRollbackPartial(committed, pending) == committed + pending

\* what the article $transaction (l.246-254) leaves in the table when its
\* callback throws: the rows inserted inside it (pending) are rolled back
ArticleRollback(committed, pending) == committed

\* the same for the quiz $transaction (l.296-306)
QuizRollback(committed, pending) == committed

\* what a $transaction leaves in the table when it commits
Commit(committed, pending) == committed + pending

\* generateArticles l.246-254: one prisma.article.create inside the transaction
articleCreate ==
    /\ pc = "articleTx"
    /\ txArticles < NumPrompts
    /\ issued' = issued \cup {"articleCreate"}
    /\ \/ /\ txArticles' = txArticles + 1
          /\ UNCHANGED <<pc, result, articles>>
       \/ /\ Throw(STORE_ERROR)
          /\ articles' = [articles EXCEPT ![kid] = ArticleRollback(@, txArticles)]
          /\ UNCHANGED txArticles
    /\ UNCHANGED <<fixed, keyword, quizzes, robotsCache, kid, branch, entry,
                   results, crawl, validDocs, tasks, txQuiz>>

\* generateArticles l.254-259 and generateQuizzes l.262-285 (called at l.95):
\* the transaction commits, the articles of the keyword are listed and one
\* quiz generation call per article is issued; or the commit fails
articleCommit ==
    /\ pc = "articleTx"
    /\ txArticles = NumPrompts
    /\ UNCHANGED txArticles
    /\ \/ /\ articles' = [articles EXCEPT ![kid] = Commit(@, txArticles)]
          /\ pc' = "generateQuiz"
          /\ tasks' = Pending(articles'[kid])
          /\ issued' = issued \cup {"articleCommit", "findMany", "genQuiz"}
          /\ UNCHANGED result
       \/ /\ Throw(STORE_ERROR)
          /\ articles' = [articles EXCEPT ![kid] = ArticleRollback(@, txArticles)]
          /\ UNCHANGED <<tasks, issued>>
    /\ UNCHANGED <<fixed, keyword, quizzes, robotsCache, kid, branch, entry,
                   results, crawl, validDocs, txQuiz>>

\* generateQuizzes l.262-285 called at l.84: the articles of the keyword are
\* listed and one quiz generation call per article is issued
findMany ==
    /\ pc = "findMany"
    /\ pc' = "generateQuiz"
    /\ tasks' = Pending(articles[kid])
    /\ issued' = issued \cup {"findMany", "genQuiz"}
    /\ UNCHANGED <<fixed, keyword, store, robotsCache, kid, branch, result,
                   entry, results, crawl, validDocs, txArticles, txQuiz>>

\* generateQuizzes l.274-296: every quiz array is there, the transaction opens
quizzesGenerated ==
    /\ pc = "generateQuiz"
    /\ AllFulfilled(tasks)
    /\ pc' = "quizTx"
    /\ txQuiz' = NoQuiz
    /\ UNCHANGED <<fixed, keyword, store, robotsCache, kid, branch, result,
                   issued, entry, results, crawl, validDocs, tasks, txArticles>>

\* generateQuizzes l.297-305: one prisma.quiz.create for article a, inside the
\* transaction; the loops of different articles interleave
quizCreate(a) ==
    /\ pc = "quizTx"
    /\ a \in DOMAIN tasks
    /\ txQuiz[a] < tasks[a].n
    /\ issued' = issued \cup {"quizCreate"}
    /\ \/ /\ txQuiz' = [txQuiz EXCEPT ![a] = @ + 1]
          /\ UNCHANGED <<pc, result, quizzes>>
       \/ /\ Throw(STORE_ERROR)
          /\ quizzes' = [quizzes EXCEPT ![kid] =
                           [x \in ArticleIdx |-> QuizRollback(@[x], txQuiz[x])]]
          /\ txQuiz' = NoQuiz
    /\ UNCHANGED <<fixed, keyword, articles, robotsCache, kid, branch, entry,
                   results, crawl, validDocs, tasks, txArticles>>

\* generateQuizzes l.306-309 and generateContents l.85-88 / l.97-99: every loop
\* has ended, the transaction commits and generateContents returns; or the
\* commit fails
quizCommit ==
    /\ pc = "quizTx"
    /\ \A a \in DOMAIN tasks : txQuiz[a] = tasks[a].n
    /\ txQuiz' = NoQuiz
    /\ \/ /\ quizzes' = [quizzes EXCEPT ![kid] =
                           [x \in ArticleIdx |-> Commit(@[x], txQuiz[x])]]
          /\ pc' = "done"
          /\ result' = "ok"
          /\ issued' = issued \cup {"quizCommit"}
       \/ /\ Throw(STORE_ERROR)
          /\ quizzes' = [quizzes EXCEPT ![kid] =
                           [x \in ArticleIdx |-> QuizRollback(@[x], txQuiz[x])]]
          /\ UNCHANGED issued
    /\ UNCHANGED <<fixed, keyword, articles, robotsCache, kid, branch, entry,
                   results, crawl, validDocs, tasks, txArticles>>

\* ------------------------------------------------------------ specification
Next ==
    \/ \E k \in KeywordIds : generateContents(k)
    \/ isArticleExists
    \/ isQuizExists
    \/ findKeyword
    \/ searchByKeyword
    \/ \E i \in 1..MaxResults : robotsResponse(i)
    \/ \E i \in 1..MaxResults : pageResponse(i)
    \/ \E o \in Origins : cacheExpire(o)
    \/ crawlJoin
    \/ createPrompts
    \/ \E i \in ArticleIdx : generationResponse(i)
    \/ generationRejected
    \/ contentsGenerated
    \/ summariesGenerated
    \/ getKeywordPublishedDate
    \/ articleCreate
    \/ articleCommit
    \/ findMany
    \/ quizzesGenerated
    \/ \E a \in ArticleIdx : quizCreate(a)
    \/ quizCommit

Spec == Init /\ [][Next]_vars

\* the steps of a running invocation: every awaited call settles.  A new job
\* and the expiry of a cache entry are not among them
Settle ==
    \/ isArticleExists
    \/ isQuizExists
    \/ findKeyword
    \/ searchByKeyword
    \/ \E i \in 1..MaxResults : robotsResponse(i)
    \/ \E i \in 1..MaxResults : pageResponse(i)
    \/ crawlJoin
    \/ createPrompts
    \/ \E i \in ArticleIdx : generationResponse(i)
    \/ generationRejected
    \/ contentsGenerated
    \/ summariesGenerated
    \/ getKeywordPublishedDate
    \/ articleCreate
    \/ articleCommit
    \/ findMany
    \/ quizzesGenerated
    \/ \E a \in ArticleIdx : quizCreate(a)
    \/ quizCommit

\* every store and generation call settles, every fetch responds or times out
FairSpec == Spec /\ WF_vars(Settle)

\* --------------------------------------------------------------------- BM25
\* Strings are sequences of characters.  The alphabet has an upper-case
\* letter, two separators that are whitespace and punctuation marks.
Whitespace == {" ", "\n"}
WordChars == {"a", "b"}

\* String.prototype.toLowerCase on the alphabet
toLowerCase(c) == IF c = "A" THEN "a" ELSE IF c = "B" THEN "b" ELSE c

\* text.split(/\s+/).filter(token => token.length > 0)
RECURSIVE split(_, _, _)
split(s, cur, out) ==
    IF s = <<>> THEN (IF cur = <<>> THEN out ELSE Append(out, cur))
    ELSE IF Head(s) \in Whitespace
    THEN split(Tail(s), <<>>, IF cur = <<>> THEN out ELSE Append(out, cur))
    ELSE split(Tail(s), Append(cur, Head(s)), out)

\* BM25Service.tokenize l.124-130: lower case, every character that is neither
\* a word character nor whitespace becomes a blank, split on whitespace runs,
\* empty tokens dropped
tokenize(text) ==
    LET lower == [i \in DOMAIN text |-> toLowerCase(text[i])]
        blanked == [i \in DOMAIN lower |->
                      IF lower[i] \in WordChars \cup Whitespace
                      THEN lower[i] ELSE " "]
    IN split(blanked, <<>>, <<>>)

\* Array.prototype.join('\n') of generateRelatedData l.142
RECURSIVE join(_)
join(texts) ==
    IF texts = <<>> THEN <<>>
    ELSE IF Len(texts) = 1 THEN texts[1]
    ELSE texts[1] \o <<"\n">> \o join(Tail(texts))

MAX_TEXT_LENGTH_FOR_BM25 == 1000

\* a crawl task that resolved to null
Null == [title |-> "null", texts |-> <<>>]

Titles == {"t1", "t2"}

\* the texts of a crawled page
TextLists ==
    { << <<"a">> >>,
      << <<"A", " ", "b">> >>,
      << <<"a">>, <<"a", "-", "b">> >>,
      << <<" ", ".">> >> }

Crawled == {[title |-> t, texts |-> x] : t \in Titles, x \in TextLists}

CrawledLists == UNION {[1..n -> Crawled \cup {Null}] : n \in 0..MaxDocs}

\* the query built by generateQuery
Queries == { <<>>, <<"a">>, <<"B">>, <<"a", " ", "b">>, <<"a", ",", "a">> }

\* the topK argument of search: the default (l.110) and two smaller values
DefaultTopK == 7
TopKs == {1, 2, DefaultTopK}

\* generateRelatedData l.140-146: the documents that are not null, with their
\* texts joined, whose content is at most MAX_TEXT_LENGTH_FOR_BM25 long
RECURSIVE ValidDocs(_)
ValidDocs(arr) ==
    IF arr = <<>> THEN <<>>
    ELSE LET doc == [title |-> Head(arr).title, content |-> join(Head(arr).texts)]
         IN IF Head(arr) # Null /\ Len(doc.content) <= MAX_TEXT_LENGTH_FOR_BM25
            THEN <<doc>> \o ValidDocs(Tail(arr))
            ELSE ValidDocs(Tail(arr))

\* Map.prototype.get / set; a Map is a function on the keys it holds
Has(m, k) == k \in DOMAIN m

MapSet(m, k, v) == [x \in DOMAIN m \cup {k} |-> IF x = k THEN v ELSE m[x]]

Range(s) == {s[i] : i \in DOMAIN s}

\* l.92-96: termFreq.set(token, (termFreq.get(token) ?? 0) + 1) over the tokens
termFreq(tokens) ==
    [t \in Range(tokens) |-> Cardinality({i \in DOMAIN tokens : tokens[i] = t})]

\* l.99-102: documentCntsHasTerm.set(term, documentCntsHasTerm.get(term) ?? 0 + 1).
\* The sum binds tighter than ??: the value stored is get(term) ?? (0 + 1)
CntSet(m, term) == MapSet(m, term, IF Has(m, term) THEN m[term] ELSE 0 + 1)

RECURSIVE CntSetAll(_, _)
CntSetAll(m, terms) ==
    IF terms = {} THEN m
    ELSE LET term == CHOOSE t \in terms : TRUE
         IN CntSetAll(CntSet(m, term), terms \ {term})

\* BM25Service.initialize l.79-108 over the first n documents
RECURSIVE initialize(_, _)
initialize(docs, n) ==
    IF n = 0
    THEN [docLengths |-> <<>>, termFrequencies |-> <<>>,
          documentCntsHasTerm |-> <<>>, totalLength |-> 0]
    ELSE LET before == initialize(docs, n - 1)
             doc == docs[n]
             tokens == tokenize(doc.content)
         IN [docLengths |-> MapSet(before.docLengths, doc.title, Len(tokens)),
             termFrequencies |->
                 MapSet(before.termFrequencies, doc.title, termFreq(tokens)),
             documentCntsHasTerm |->
                 CntSetAll(before.documentCntsHasTerm, Range(tokens)),
             totalLength |-> before.totalLength + Len(tokens)]

\* Numbers are fixed-point with six decimals.  LnMicro[n] is Math.log(n)
LnMicro ==
    <<0, 693147, 1098612, 1386294, 1609438, 1791759, 1945910, 2079442,
      2197225, 2302585, 2397895, 2484907, 2564949, 2639057>>

\* Math.log(p / q)
MathLog(p, q) == LnMicro[p] - LnMicro[q]

\* what a division by zero with a zero dividend yields, and every sum and
\* product it enters: it is neither > 0 nor >= 0
NaN == -1

\* config.k1 ?? 1.5 and config.b ?? 0.75 (l.59-62), as fractions
K1 == [num |-> 3, den |-> 2]
B == [num |-> 3, den |-> 4]

\* calculateIDF l.137-141: Math.log((N - df + 0.5) / (df + 0.5) + 1), the
\* fraction written over 2 * df + 1
idf(N, df) == MathLog((2 * N - 2 * df + 1) + (2 * df + 1), 2 * df + 1)

\* calculateIDF l.132-144 with the memo read first
calculateIDF(cache, term) ==
    IF Has(cache, term) THEN cache[term]
    ELSE idf(Len(documents),
             IF Has(documentCntsHasTerm, term) THEN documentCntsHasTerm[term] ELSE 0)

\* caculateScore l.162-166 for one query term of frequency tf > 0:
\*   idf * (tf * (k1 + 1)) / (tf + k1 * (1 - b + b * (docLength / avgDocLength)))
\* with avgDocLength = num / den, both sides of the last fraction multiplied
\* by K1.den * B.den * num
TermScore(idfValue, tf, docLength) ==
    IF avgDocLength.num = 0 \/ avgDocLength.den = 0 THEN NaN
    ELSE (idfValue * (tf * (K1.num + K1.den) * B.den * avgDocLength.num))
           \div (tf * K1.den * B.den * avgDocLength.num
                   + K1.num * ((B.den - B.num) * avgDocLength.num
                                 + B.num * docLength * avgDocLength.den))

Plus(x, y) == IF x = NaN \/ y = NaN THEN NaN ELSE x + y

\* caculateScore l.146-170
RECURSIVE caculateScore(_, _, _)
caculateScore(title, queryTerm, cache) ==
    IF ~Has(termFrequencies, title) THEN 0
    ELSE IF queryTerm = <<>> THEN 0
    ELSE LET term == Head(queryTerm)
             tf == IF Has(termFrequencies[title], term)
                   THEN termFrequencies[title][term] ELSE 0
             docLength == IF Has(docLengths, title) THEN docLengths[title] ELSE 0
             rest == caculateScore(title, Tail(queryTerm), cache)
         IN IF tf = 0 THEN rest
            ELSE Plus(TermScore(calculateIDF(cache, term), tf, docLength), rest)

\* the divisions by avgDocLength a search with these query terms performs:
\* one for every document and query term with tf > 0
Ratios(queryTerm) ==
    {[docLength |-> docLengths[documents[i].title], avgDocLength |-> avgDocLength] :
        i \in {j \in DOMAIN documents :
                 \E t \in Range(queryTerm) :
                    /\ Has(termFrequencies, documents[j].title)
                    /\ Has(termFrequencies[documents[j].title], t)}}

\* the terms calculateIDF is called with, and so those the memo holds afterwards
Memo(queryTerm, cache) ==
    LET called == {t \in Range(queryTerm) :
                     \E i \in DOMAIN documents :
                        /\ Has(termFrequencies, documents[i].title)
                        /\ Has(termFrequencies[documents[i].title], t)}
    IN [t \in DOMAIN cache \cup called |-> calculateIDF(cache, t)]

\* mutant of compareFn: ascending
compareFnAscending(a, b) == a - b

\* the compare function of l.119: (a, b) => b.score - a.score
compareFn(a, b) == b - a

\* Array.prototype.sort is stable: an element moves in front of an earlier one
\* only when the compare function says so.  The result lists positions in
\* documents
RECURSIVE sort(_, _)
sort(scores, n) ==
    IF n = 0 THEN <<>>
    ELSE LET before == sort(scores, n - 1)
             ahead == {k \in DOMAIN before :
                         \A j \in 1..k : compareFn(scores[before[j]], scores[n]) <= 0}
         IN [k \in 1..n |->
               IF k <= Cardinality(ahead) THEN before[k]
               ELSE IF k = Cardinality(ahead) + 1 THEN n
               ELSE before[k - 1]]

\* mutant of slice: the list is not cut
sliceNone(s, k) == s

\* Array.prototype.slice(0, k)
slice(s, k) == [i \in 1..(IF k < Len(s) THEN k ELSE Len(s)) |-> s[i]]

\* the filter of l.121: result.score > 0
Positive(score) == score > 0

RECURSIVE filter(_, _)
filter(s, scores) ==
    IF s = <<>> THEN <<>>
    ELSE IF Positive(scores[Head(s)]) THEN <<Head(s)>> \o filter(Tail(s), scores)
    ELSE filter(Tail(s), scores)

\* mutant of avgOf: the sum is divided by one more than the number of documents
avgOfPlusOne(totalLength, n) == [num |-> totalLength, den |-> n + 1]

\* l.107: totalLength / documents.length, kept as a fraction
avgOf(totalLength, n) == [num |-> totalLength, den |-> n]

InitBM25 ==
    /\ crawledArr \in CrawledLists
    /\ bm25Service = "none"
    /\ documents = <<>>
    /\ docLengths = <<>>
    /\ avgDocLength = [num |-> 0, den |-> 1]
    /\ termFrequencies = <<>>
    /\ documentCntsHasTerm = <<>>
    /\ idfCache = <<>>
    /\ found = NoSearch
    /\ ExtractOff
    /\ jobs = NoJobs
    /\ Parked

\* generateRelatedData l.140-152: validDocs, then new BM25Service(validDocs)
\* (constructor l.54-70, initialize l.79-108)
newBM25Service ==
    /\ bm25Service = "none"
    /\ LET docs == ValidDocs(crawledArr)
           index == initialize(docs, Len(docs))
       IN /\ documents' = docs
          /\ docLengths' = index.docLengths
          /\ termFrequencies' = index.termFrequencies
          /\ documentCntsHasTerm' = index.documentCntsHasTerm
          /\ avgDocLength' = avgOf(index.totalLength, Len(docs))
    /\ bm25Service' = "built"
    /\ idfCache' = <<>>
    /\ UNCHANGED <<crawledArr, found, extractVars, jobs, vars>>

\* BM25Service.search l.110-122
search(query, topK) ==
    /\ bm25Service = "built"
    /\ LET queryTerms == tokenize(query)
           scores == [i \in DOMAIN documents |->
                        caculateScore(documents[i].title, queryTerms, idfCache)]
           ranked == filter(slice(sort(scores, Len(scores)), topK), scores)
       IN /\ found' = [query |-> query, topK |-> topK, scores |-> scores,
                       ratios |-> Ratios(queryTerms), ranked |-> ranked,
                       again |-> found # NoSearch /\ found.query = query
                                                  /\ found.topK = topK]
          /\ idfCache' = Memo(queryTerms, idfCache)
    /\ UNCHANGED <<crawledArr, bm25Service, documents, docLengths, avgDocLength,
                   termFrequencies, documentCntsHasTerm, extractVars, jobs, vars>>

NextBM25 ==
    \/ newBM25Service
    \/ \E query \in Queries, topK \in TopKs : search(query, topK)

SpecBM25 == InitBM25 /\ [][NextBM25]_<<vars, bm25Vars, extractVars, jobs>>

\* --------------------------------------------------------------- extraction
MIN_TEXT_LENGTH == 30

\* BATCH_OPTIONS.SELECTORS and REMOVE_SELECTORS, as far as the pages built
\* below use them; a span is in neither list
SelectTags == {"p", "div"}
RemoveTags == {"script"}

\* n times the character c
Rep(c, n) == [i \in 1..n |-> c]

\* the text nodes of the pages: of the minimum length and one short of it once
\* normalised, with whitespace around and inside
Body30 == Rep("x", 30)
Padded30 == <<" ">> \o Rep("x", 30) \o <<"\n", " ">>
Spaced30 == Rep("y", 14) \o <<" ", "\n", " ">> \o Rep("y", 15)
Trailing == Rep("y", 29) \o Rep(" ", 5)
Half == Rep("x", 15)

Leaf(tag, text) == [tag |-> tag, text |-> text, kids |-> <<>>]

Leaves ==
    {Leaf("p", Body30), Leaf("p", Padded30), Leaf("p", Spaced30),
     Leaf("p", Trailing), Leaf("span", Half), Leaf("script", Body30)}

\* a div holds one or two elements and no text of its own
Divs ==
    {[tag |-> "div", text |-> <<>>, kids |-> ks] :
        ks \in [1..1 -> Leaves] \cup [1..2 -> Leaves]}

Pages == UNION {[1..n -> Leaves \cup Divs] : n \in 0..MaxElems}

\* $(REMOVE_SELECTORS).remove(), l.57: the matching elements leave the tree
\* with all they hold
RECURSIVE remove(_)
remove(nodes) ==
    IF nodes = <<>> THEN <<>>
    ELSE IF Head(nodes).tag \in RemoveTags THEN remove(Tail(nodes))
    ELSE <<[Head(nodes) EXCEPT !.kids = remove(@)]>> \o remove(Tail(nodes))

\* the elements of the tree in document order
RECURSIVE elements(_)
elements(nodes) ==
    IF nodes = <<>> THEN <<>>
    ELSE <<Head(nodes)>> \o elements(Head(nodes).kids) \o elements(Tail(nodes))

\* $(SELECTORS), l.61
RECURSIVE select(_)
select(es) ==
    IF es = <<>> THEN <<>>
    ELSE IF Head(es).tag \in SelectTags THEN <<Head(es)>> \o select(Tail(es))
    ELSE select(Tail(es))

\* $(element).find(SELECTORS).length > 0, l.62
find(element) == select(elements(element.kids)) # <<>>

\* $(element).text(), l.64: the text nodes below the element, concatenated
RECURSIVE text(_)
RECURSIVE textOf(_)
text(element) == element.text \o textOf(element.kids)
textOf(nodes) ==
    IF nodes = <<>> THEN <<>> ELSE text(Head(nodes)) \o textOf(Tail(nodes))

\* replace(/\s+/g, ' '), l.64
RECURSIVE replaceWs(_, _)
replaceWs(s, inRun) ==
    IF s = <<>> THEN <<>>
    ELSE IF Head(s) \in Whitespace
    THEN (IF inRun THEN <<>> ELSE <<" ">>) \o replaceWs(Tail(s), TRUE)
    ELSE <<Head(s)>> \o replaceWs(Tail(s), FALSE)

\* String.prototype.trim on a text whose whitespace runs are single blanks
trim(s) ==
    LET from == IF s # <<>> /\ s[1] = " " THEN 2 ELSE 1
        to == IF s # <<>> /\ s[Len(s)] = " " THEN Len(s) - 1 ELSE Len(s)
    IN IF from > to THEN <<>> ELSE SubSeq(s, from, to)

normalize(s) == trim(replaceWs(s, FALSE))

\* mutant of add: the text is appended whether it is there or not
addAlways(set, t) == Append(set, t)

\* Set.prototype.add, l.66: a Set keeps the order of first insertion
add(set, t) == IF t \in Range(set) THEN set ELSE Append(set, t)

\* the callback of each, l.61-68, over the selected elements
RECURSIVE each(_, _)
each(es, textSet) ==
    IF es = <<>> THEN textSet
    ELSE LET t == normalize(text(Head(es)))
         IN IF find(Head(es)) THEN each(Tail(es), textSet)
            ELSE IF Len(t) >= MIN_TEXT_LENGTH THEN each(Tail(es), add(textSet, t))
            ELSE each(Tail(es), textSet)

InitExtract ==
    /\ html \in Pages
    /\ extracted = NotExtracted
    /\ Bm25Off
    /\ jobs = NoJobs
    /\ Parked

\* CrawlingService.extractContent l.55-71
extractContent ==
    /\ ~extracted.done
    /\ extracted' = [done |-> TRUE,
                     texts |-> each(select(elements(remove(html))), <<>>)]
    /\ UNCHANGED <<html, bm25Vars, jobs, vars>>

NextExtract == extractContent

SpecExtract == InitExtract /\ [][NextExtract]_<<vars, bm25Vars, extractVars, jobs>>

\* ----------------------------------------------------------------- overlap
\* Two invocations of generateContents for keyword 1 run at the same time
\* (two worker processes, or a job that is run again while its first run is
\* alive).  Each is followed from its article existence check to the end of
\* its article transaction; what lies between (search, crawl, generation) is
\* one step, and so is what follows the branch that finds articles, or the
\* commit: it writes no article.
Invocations == {1, 2}

OverlapKeyword == 1

Job(pc_, tx, result_) == [pc |-> pc_, tx |-> tx, result |-> result_]

InitOverlap ==
    /\ jobs = [w \in Invocations |-> Job("isArticleExists", 0, "none")]
    /\ Bm25Off
    /\ ExtractOff
    /\ Parked

\* the frame of a step of an overlapping invocation
OverlapFrame ==
    UNCHANGED <<copy, keyword, quizzes, robotsCache, pc, kid, branch, result,
                issued, entry, locals, bm25Vars, extractVars>>

\* generateContents l.78-80 / l.418-420: the existence check reads the
\* committed rows
overlapArticleExists(w) ==
    /\ jobs[w].pc = "isArticleExists"
    /\ jobs' = [jobs EXCEPT ![w] =
                  IF ArticleExists(OverlapKeyword)
                  THEN Job("isQuizExists", 0, "none")
                  ELSE Job("generate", 0, "none")]
    /\ UNCHANGED articles
    /\ OverlapFrame

\* generateContents l.91-95 up to the transaction of generateArticles l.246:
\* keyword, search, crawl, ranking and the ten generation calls succeed, or
\* one of them throws
overlapGenerate(w) ==
    /\ jobs[w].pc = "generate"
    /\ \/ jobs' = [jobs EXCEPT ![w] = Job("articleTx", 0, "none")]
       \/ jobs' = [jobs EXCEPT ![w] = Job("done", 0, "failed")]
    /\ UNCHANGED articles
    /\ OverlapFrame

\* generateArticles l.246-254: one create inside the invocation's transaction;
\* the store accepts the row, or the create fails and the transaction rolls back
overlapArticleCreate(w) ==
    /\ jobs[w].pc = "articleTx"
    /\ jobs[w].tx < NumPrompts
    /\ \/ /\ jobs' = [jobs EXCEPT ![w].tx = @ + 1]
          /\ UNCHANGED articles
       \/ /\ jobs' = [jobs EXCEPT ![w] = Job("done", 0, "failed")]
          /\ articles' = [articles EXCEPT ![OverlapKeyword] =
                            ArticleRollback(@, jobs[w].tx)]
    /\ OverlapFrame

\* generateArticles l.254: the transaction commits its five rows, or fails
overlapArticleCommit(w) ==
    /\ jobs[w].pc = "articleTx"
    /\ jobs[w].tx = NumPrompts
    /\ \/ /\ jobs' = [jobs EXCEPT ![w] = Job("generateQuizzes", 0, "committed")]
          /\ articles' = [articles EXCEPT ![OverlapKeyword] = Commit(@, jobs[w].tx)]
       \/ /\ jobs' = [jobs EXCEPT ![w] = Job("done", 0, "failed")]
          /\ articles' = [articles EXCEPT ![OverlapKeyword] =
                            ArticleRollback(@, jobs[w].tx)]
    /\ OverlapFrame

\* generateContents l.80-88 and l.95-99: the quiz existence check and the quiz
\* generation, whatever their outcome, write no article
overlapQuizzes(w) ==
    /\ jobs[w].pc \in {"isQuizExists", "generateQuizzes"}
    /\ jobs' = [jobs EXCEPT ![w].pc = "done"]
    /\ UNCHANGED articles
    /\ OverlapFrame

NextOverlap ==
    \/ \E w \in Invocations : overlapQuizzes(w)
    \/ \E w \in Invocations : overlapArticleExists(w)
    \/ \E w \in Invocations : overlapGenerate(w)
    \/ \E w \in Invocations : overlapArticleCreate(w)
    \/ \E w \in Invocations : overlapArticleCommit(w)

SpecOverlap == InitOverlap /\ [][NextOverlap]_<<vars, bm25Vars, extractVars, jobs>>

\* ------------------------------------------------------------------ claims
\* calls to the Search Client, the Crawler and the generation service
ExternalCalls == {"search", "robots", "page", "genContent", "genSummary", "genQuiz"}

\* calls that belong to steps 3 and 4 of the pipeline (search, crawl, article
\* generation, article persistence)
ArticleStageCalls ==
    {"search", "robots", "page", "genContent", "genSummary", "publishDate",
     "articleCreate", "articleCommit"}

WriteCalls == {"articleCreate", "articleCommit", "quizCreate", "quizCommit"}

EntryQuizExists == \E a \in 1..entry.articles : entry.quizzes[a] > 0

StoreAsAtEntry == articles[kid] = entry.articles /\ quizzes[kid] = entry.quizzes

\* errors thrown by a search or generation call
UpstreamErrors ==
    {BRAVE_SEARCH_API_REQUEST_FAILED, SYNTAX_ERROR, ABORT_ERROR, GENERATION_ERROR}

\* C1: an invocation for a keyword that already has an article and a quiz
\* fails with CONTENTS_ALREADY_EXISTS; it issues no search, crawl or generation
\* call and no write, and the keyword's rows are what they were.
C1_AlreadyExists ==
    (pc # "idle" /\ entry.articles > 0 /\ EntryQuizExists) =>
        /\ issued \cap (ExternalCalls \cup WriteCalls \cup {"findMany"}) = {}
        /\ StoreAsAtEntry
        /\ pc = "done" => result = CONTENTS_ALREADY_EXISTS

C1_Witness ==
    /\ pc = "done"
    /\ entry.articles > 0
    /\ EntryQuizExists
    /\ result = CONTENTS_ALREADY_EXISTS

C3_AllOrNothing == \A k \in KeywordIds : articles[k] \in {0, NumPrompts}

C3_Witness ==
    /\ pc = "done"
    /\ result = STORE_ERROR
    /\ txArticles \in 1..(NumPrompts - 1)
    /\ articles[kid] = 0

\* C4: the invocation that follows one which committed the articles and then
\* failed (same keyword) resumes at quiz generation: no search, crawl, ranking,
\* article generation or article write, and one quiz generation call for each
\* of the articles committed before.
C4_Resume ==
    (pc # "idle" /\ entry.prev = "quizFailed") =>
        /\ entry.articles = NumPrompts
        /\ ~EntryQuizExists
        /\ issued \cap ArticleStageCalls = {}
        /\ articles[kid] = entry.articles
        /\ pc \in {"isArticleExists", "findKeyword", "isQuizExists", "findMany",
                   "generateQuiz", "quizTx", "done"}
        /\ pc \in {"generateQuiz", "quizTx", "done"} =>
             "genQuiz" \in issued /\ Len(tasks) = entry.articles

C4_Witness ==
    /\ pc = "done"
    /\ entry.prev = "quizFailed"
    /\ result = "ok"
    /\ QuizExists(kid)

\* C5 (as claimed): the invocation that follows a successful one (same
\* keyword) fails with CONTENTS_ALREADY_EXISTS and issues no generation call
\* and no write.
C5_Idempotent ==
    (pc # "idle" /\ entry.prev = "ok") =>
        /\ issued \cap (ExternalCalls \cup WriteCalls) = {}
        /\ pc = "done" => result = CONTENTS_ALREADY_EXISTS

\* C6 (as claimed): for an absent keyword id the invocation fails with
\* KEYWORD_NOT_FOUND before the article and quiz existence checks, with no
\* search, crawl or generation call and no write.
C6_KeywordFirst ==
    (pc # "idle" /\ keyword[kid] = "absent") =>
        /\ issued \subseteq {"findKeyword"}
        /\ StoreAsAtEntry
        /\ pc = "done" => result = KEYWORD_NOT_FOUND

\* C6 (amended): for an absent keyword id the invocation fails with
\* KEYWORD_NOT_FOUND with no search, crawl or generation call, no write and no
\* quiz existence check; the second BatchService resolves the keyword before
\* the article existence check, the first one checks the articles first.
C6_KeywordNotFound ==
    (pc # "idle" /\ keyword[kid] = "absent") =>
        /\ issued \subseteq {"findKeyword", "articleCheck"}
        /\ copy = 2 => "articleCheck" \notin issued
        /\ (copy = 1 /\ pc \in {"findKeyword", "done"}) => "articleCheck" \in issued
        /\ StoreAsAtEntry
        /\ pc \in {"isArticleExists", "findKeyword", "done"}
        /\ pc = "done" => result = KEYWORD_NOT_FOUND

C6_Witness ==
    /\ pc = "done"
    /\ keyword[kid] = "absent"
    /\ result = KEYWORD_NOT_FOUND
    /\ copy = 1
    /\ ArticleExists(1)

\* C7: once a content, summary or quiz generation call has rejected, the
\* invocation leaves the stage only by failing, with the store untouched: no
\* article is persisted after a content or summary failure, no quiz after a
\* quiz generation failure.
C7_GenerationFatal ==
    [][(pc \in GenStages /\ AnyRejected(tasks)) =>
          /\ pc \in {"generateObj", "generateText"} => articles[kid] = 0
          /\ pc = "generateQuiz" => ~QuizExists(kid)
          /\ \/ pc' = pc
             \/ /\ pc' = "done"
                /\ result' = GENERATION_ERROR
                /\ UNCHANGED store]_vars

C7_Witness ==
    /\ pc = "done"
    /\ result = GENERATION_ERROR
    /\ AnyRejected(tasks)
    /\ "genSummary" \in issued
    /\ articles[kid] = 0

\* C8 (as claimed): a full-generation invocation for a keyword without publish
\* date persists no article and no quiz, and fails with
\* KEYWORD_DATE_NOT_EXISTS (unless another call of the invocation failed).
C8_PublishDateMissing ==
    (pc # "idle" /\ branch = "full" /\ keyword[kid] = "nodate") =>
        /\ articles[kid] = 0
        /\ ~QuizExists(kid)
        /\ pc = "done" =>
             result \in {KEYWORD_DATE_NOT_EXISTS, STORE_ERROR} \cup UpstreamErrors

\* C9: when the robots.txt fetch of a crawl task times out, isUrlAllowed
\* returns false (the task ends with null and no page fetch) and the step
\* writes nothing to the cache; and a call for an origin that has no cache
\* entry issues a robots.txt fetch.
C9_TimeoutDeny ==
    [][/\ \A i \in DOMAIN crawl :
            (i \in DOMAIN crawl' /\ crawl[i].robots = "none"
                                /\ crawl'[i].robots = "abort") =>
               /\ crawl'[i].pc = "done"
               /\ crawl'[i].out = "null"
               /\ robotsCache' = robotsCache
       /\ (crawl = <<>> /\ crawl' # <<>>) =>
            \A i \in DOMAIN crawl' :
               (results'[i] \in Origins /\ robotsCache[results'[i]] = "none") =>
                   crawl'[i].pc = "robots"]_vars

C9_Witness ==
    \E i \in DOMAIN crawl :
        /\ crawl[i].robots = "abort"
        /\ crawl[i].out = "null"
        /\ robotsCache[results[i]] = "none"

\* C10: when the robots.txt fetch of a crawl task fails without a timeout
\* (network error, non-success status), isUrlAllowed returns true (the page
\* fetch is issued) and the cache holds allow for the origin.
C10_FailOpen ==
    [][\A i \in DOMAIN crawl :
          (i \in DOMAIN crawl' /\ crawl[i].robots = "none"
                              /\ crawl'[i].robots \in {"error", "status"}) =>
             /\ crawl'[i].pc = "page"
             /\ "page" \in issued'
             /\ robotsCache'[results[i]] = "allow"]_vars

C10_Witness ==
    \E i \in DOMAIN crawl :
        /\ crawl[i].robots \in {"error", "status"}
        /\ crawl[i].pc = "page"
        /\ robotsCache[results[i]] = "allow"

\* C11: a crawl task started while the cache holds a decision for the origin
\* of its url takes that decision as it is (allow: the page fetch is issued,
\* deny: the task ends with null), issues no robots.txt fetch and leaves the
\* cache as it was.  Urls of one origin differ only in their path, which the
\* lookup does not read.
C11_CachedDecision ==
    [][(crawl = <<>> /\ crawl' # <<>>) =>
          /\ robotsCache' = robotsCache
          /\ \A i \in DOMAIN crawl' :
               (results'[i] \in Origins /\ robotsCache[results'[i]] # "none") =>
                  /\ crawl'[i].robots = "cached"
                  /\ crawl'[i].pc # "robots"
                  /\ robotsCache[results'[i]] = "allow" =>
                       crawl'[i].pc = "page" /\ "page" \in issued'
                  /\ robotsCache[results'[i]] = "deny" =>
                       crawl'[i].pc = "done" /\ crawl'[i].out = "null"
          /\ (\A i \in DOMAIN crawl' :
                 results'[i] \in Origins => robotsCache[results'[i]] # "none") =>
               "robots" \notin issued']_vars

C11_Witness ==
    /\ pc = "crawl"
    /\ "robots" \notin issued
    /\ \E i \in DOMAIN crawl :
         /\ crawl[i].robots = "cached"
         /\ crawl[i].out = "null"
         /\ robotsCache[results[i]] = "deny"
    /\ \E i \in DOMAIN crawl :
         /\ crawl[i].robots = "cached"
         /\ crawl[i].pc = "page"
         /\ robotsCache[results[i]] = "allow"

\* C12 (as claimed): no call of isUrlAllowed throws: every call a crawl task
\* has made is pending, was answered from the cache or resolved to the boolean
\* of one of the outcomes of the robots.txt fetch.
C12_NeverThrows ==
    \A i \in DOMAIN crawl : crawl[i].robots \in {"none", "cached"} \cup RobotsOutcomes

\* C13: crawlWebsite never fails: while the crawl tasks run the invocation
\* does not end, every task that has ended holds a document or null, a task
\* whose robots check denied, timed out or threw holds null and its step
\* issued no page fetch.
C13_CrawlNeverFails ==
    [][/\ pc = "crawl" => (pc' \in {"crawl", "rank"} /\ result' = "none")
       /\ \A i \in DOMAIN crawl' :
            /\ crawl'[i].pc = "done" => crawl'[i].out \in {"null", "small", "big"}
            /\ crawl'[i].robots \in {"abort", "deny", "threw"} =>
                 crawl'[i].pc = "done" /\ crawl'[i].out = "null"
       /\ \A i \in DOMAIN crawl :
            (i \in DOMAIN crawl' /\ crawl[i].pc = "robots"
                                /\ crawl'[i].robots \in {"abort", "deny"}) =>
               issued' = issued
       /\ (crawl = <<>> /\ crawl' # <<>>
              /\ \A i \in DOMAIN crawl' : crawl'[i].pc = "done") =>
            "page" \notin issued']_vars

C13_Witness ==
    /\ pc = "rank"
    /\ result = "none"
    /\ \E i, j \in DOMAIN crawl :
         /\ crawl[i].robots \in {"abort", "deny", "threw"}
         /\ crawl[i].out = "null"
         /\ crawl[j].robots = "allow"
         /\ crawl[j].out = "null"

\* C14 (as claimed): when the search step ends the invocation, the error is
\* BRAVE_SEARCH_API_REQUEST_FAILED, whatever the body of the response (or the
\* abort of the fetch, when no response came).
C14_SearchUnavailable ==
    [][(pc = "searchByKeyword" /\ pc' = "done") =>
          result' \in {BRAVE_SEARCH_API_REQUEST_FAILED, ABORT_ERROR}]_vars

\* the positions of the documents that share a token with the last query
Overlapping ==
    {i \in DOMAIN documents :
        Range(tokenize(documents[i].content)) \cap Range(tokenize(found.query)) # {}}

\* the positions of the documents the last search scored above zero
Scored == {i \in DOMAIN documents : found.scores[i] > 0}

\* C15 (as claimed): once the index is built, the document frequency recorded
\* for a term is the number of indexed documents whose tokens contain it.
C15_DocumentFrequency ==
    bm25Service = "built" =>
        \A term \in DOMAIN documentCntsHasTerm :
            documentCntsHasTerm[term] =
                Cardinality({i \in DOMAIN documents :
                                term \in Range(tokenize(documents[i].content))})

\* C16: a search returns at most topK documents and at least
\* min(topK, number of documents scored above zero); every returned document
\* has a score above zero, none is returned twice, and a document scored above
\* zero that is left out scores no more than any returned one.
C16_TopK ==
    found # NoSearch =>
        /\ Len(found.ranked) <= found.topK
        /\ Len(found.ranked) >= found.topK \/ Len(found.ranked) >= Cardinality(Scored)
        /\ Range(found.ranked) \subseteq Scored
        /\ \A j, k \in DOMAIN found.ranked : j # k => found.ranked[j] # found.ranked[k]
        /\ \A i \in Scored \ Range(found.ranked) :
             \A k \in DOMAIN found.ranked :
                found.scores[i] <= found.scores[found.ranked[k]]

C16_Witness ==
    /\ found # NoSearch
    /\ found.topK < Cardinality(Scored)
    /\ Len(found.ranked) = found.topK
    /\ \E i \in Scored \ Range(found.ranked) :
         found.scores[i] < found.scores[found.ranked[1]]

\* C17 (as claimed): every score is >= 0; a document that shares no token with
\* the query scores 0 and is not returned; a document that holds a query term
\* scores above zero.
C17_ScoreSign ==
    found # NoSearch =>
        \A i \in DOMAIN documents :
            /\ found.scores[i] >= 0
            /\ i \notin Overlapping =>
                 found.scores[i] = 0 /\ i \notin Range(found.ranked)
            /\ i \in Overlapping => found.scores[i] > 0

\* C18: the returned list is in descending score order with documents of
\* equal score in input order; a search changes no field of the index but the
\* IDF memo; and a search that repeats the arguments of the one before it
\* computes the same scores and returns the same list.
C18_Deterministic ==
    [][/\ bm25Service = "built" =>
            UNCHANGED <<documents, docLengths, avgDocLength, termFrequencies,
                        documentCntsHasTerm>>
       /\ \A j, k \in DOMAIN found'.ranked :
            j < k =>
               \/ found'.scores[found'.ranked[j]] > found'.scores[found'.ranked[k]]
               \/ /\ found'.scores[found'.ranked[j]] = found'.scores[found'.ranked[k]]
                  /\ found'.ranked[j] < found'.ranked[k]
       /\ (found # NoSearch /\ found'.query = found.query
                            /\ found'.topK = found.topK) =>
            /\ found'.ranked = found.ranked
            /\ found'.scores = found.scores]_bm25Vars

C18_Witness ==
    /\ found.again
    /\ idfCache # <<>>
    /\ found.ranked = <<1, 2>>
    /\ found.scores[1] = found.scores[2]

\* C19: a search over an empty collection returns the empty list and computes
\* nothing; no search divides by a zero average length or yields NaN; with one
\* indexed document docLength / avgDocLength is 1 wherever it is computed; and
\* when every crawl task resolved to null the collection is empty.
C19_NoDivisionByZero ==
    /\ (bm25Service = "built" /\ \A i \in DOMAIN crawledArr : crawledArr[i] = Null) =>
         documents = <<>>
    /\ found # NoSearch =>
         /\ documents = <<>> =>
              found.ranked = <<>> /\ found.scores = <<>> /\ found.ratios = {}
         /\ \A r \in found.ratios :
              /\ r.avgDocLength.num > 0
              /\ r.avgDocLength.den > 0
              /\ Len(documents) = 1 =>
                   r.docLength * r.avgDocLength.den = r.avgDocLength.num
         /\ \A i \in DOMAIN found.scores : found.scores[i] # NaN

C19_Witness ==
    /\ Len(crawledArr) > Len(documents)
    /\ Len(documents) = 1
    /\ found.ratios # {}
    /\ found.ranked = <<1>>

\* the elements the scan reads, in document order, written out for pages two
\* levels deep: a top-level p, a top-level div none of whose remaining
\* elements is a p, and the p elements inside a div
RECURSIVE Read(_)
Read(nodes) ==
    IF nodes = <<>> THEN <<>>
    ELSE LET n == Head(nodes)
             inner == {k \in DOMAIN n.kids : n.kids[k].tag = "p"}
         IN (IF n.tag = "p" THEN <<n.text>>
             ELSE IF n.tag = "div" /\ inner = {}
             THEN << (IF n.kids[1].tag = "span" THEN n.kids[1].text ELSE <<>>)
                     \o (IF Len(n.kids) = 2 /\ n.kids[2].tag = "span"
                         THEN n.kids[2].text ELSE <<>>) >>
             ELSE IF n.tag = "div"
             THEN [k \in 1..Cardinality(inner) |->
                     n.kids[CHOOSE j \in inner :
                               Cardinality({i \in inner : i <= j}) = k].text]
             ELSE <<>>)
            \o Read(Tail(nodes))

\* the position in Read(html) of the first element whose text reads as t
First(t) ==
    CHOOSE i \in DOMAIN Read(html) :
        /\ normalize(Read(html)[i]) = t
        /\ \A j \in 1..(i - 1) : normalize(Read(html)[j]) # t

\* C20: the texts extractContent returns hold no string twice; each is the
\* normalised text, at least MIN_TEXT_LENGTH long, of an element the scan
\* reads, and every such text is there; the texts are in the order in which
\* they first occur; a div that holds a p contributes nothing of its own.
C20_Extraction ==
    extracted.done =>
        LET texts == extracted.texts
        IN /\ \A j, k \in DOMAIN texts : j # k => texts[j] # texts[k]
           /\ \A k \in DOMAIN texts : Len(texts[k]) >= MIN_TEXT_LENGTH
           /\ Range(texts) =
                {normalize(Read(html)[i]) : i \in
                    {j \in DOMAIN Read(html) :
                        Len(normalize(Read(html)[j])) >= MIN_TEXT_LENGTH}}
           /\ \A j, k \in DOMAIN texts : j < k => First(texts[j]) < First(texts[k])

C20_Witness ==
    /\ extracted.done
    /\ Len(html) = 2
    /\ html[1].tag = "div"
    /\ Len(html[1].kids) = 2
    /\ html[1].kids[1] = Leaf("p", Spaced30)
    /\ html[1].kids[2] = Leaf("span", Half)
    /\ html[2] = Leaf("p", Padded30)
    /\ extracted.texts = <<normalize(Spaced30), Body30>>

InFlight(ts) == \E i \in DOMAIN ts : ts[i].st = "pending"

Fulfilled(ts) == \A i \in DOMAIN ts : ts[i].st = "ok"

\* the stage barriers on the way forward: the index is built only after every
\* crawl task has ended, the summary calls are issued, the article
\* transaction (or the publish date lookup before it) is reached and the quiz
\* transaction is opened only after every call of the batch before has
\* fulfilled
Barriers ==
    /\ (pc = "crawl" /\ pc' # "crawl") =>
         pc' = "rank" /\ \A i \in DOMAIN crawl : crawl[i].pc = "done"
    /\ ("genSummary" \in issued' /\ "genSummary" \notin issued) =>
         pc = "generateObj" /\ Len(tasks) = NumPrompts /\ Fulfilled(tasks)
    /\ (pc = "generateText" /\ pc' \notin {"generateText", "done"}) =>
         Len(tasks) = NumPrompts /\ Fulfilled(tasks)
    /\ (pc # "articleTx" /\ pc' = "articleTx") => "genSummary" \in issued
    /\ (pc # "quizTx" /\ pc' = "quizTx") =>
         pc = "generateQuiz" /\ Fulfilled(tasks)

\* C21 (as claimed): the stage barriers hold, and generateContents does not
\* return, with success or with a failure, while a task of the current batch
\* is in flight.
C21_NoReturnInFlight ==
    [][/\ Barriers
       /\ pc' = "done" => ~InFlight(tasks')]_vars

\* C21 (amended): the stage barriers hold and generateContents does not return
\* success while a task is in flight; it leaves a generation stage with a
\* failure only when a call of the batch has rejected, and then at once,
\* whatever the other calls of the batch are doing.
C21_StageBarriers ==
    [][/\ Barriers
       /\ (pc' = "done" /\ result' = "ok") => ~InFlight(tasks')
       /\ (pc \in GenStages /\ pc' = "done") =>
            /\ result' = GENERATION_ERROR
            /\ \E i \in DOMAIN tasks : tasks[i].st = "failed"
            /\ tasks' = tasks]_vars

C21_Witness ==
    /\ pc = "done"
    /\ result = GENERATION_ERROR
    /\ InFlight(tasks)
    /\ "genQuiz" \in issued

\* C22: when the crawl batch has been joined the invocation has not failed,
\* every search result still has its task, and the documents handed to the
\* index are the tasks that ended with a document of at most
\* MAX_TEXT_LENGTH_FOR_BM25 characters, each once, in the order of the search
\* results, in whatever order the tasks ended.
C22_PartialCorpus ==
    pc = "rank" =>
        /\ result = "none"
        /\ Len(crawl) = Len(results)
        /\ \A j, k \in DOMAIN validDocs : j < k => validDocs[j] < validDocs[k]
        /\ Range(validDocs) = {i \in DOMAIN crawl : crawl[i].out = "small"}

C22_Witness ==
    /\ pc = "rank"
    /\ Len(crawl) = 2
    /\ crawl[1].robots = "deny"
    /\ crawl[1].out = "null"
    /\ crawl[2].out = "small"
    /\ validDocs = <<2>>

\* C23: from the quiz generation calls on, the keyword has no quiz row until
\* the invocation returns success, and then every article has as many quiz
\* rows as items were generated for it; an invocation that failed at an insert
\* or at the commit leaves no quiz row.
C23_QuizAllOrNothing ==
    "genQuiz" \in issued =>
        IF pc = "done" /\ result = "ok"
        THEN \A a \in ArticleIdx :
                quizzes[kid][a] = IF a \in DOMAIN tasks THEN tasks[a].n ELSE 0
        ELSE quizzes[kid] = NoQuiz

C23_Witness ==
    /\ pc = "done"
    /\ result = STORE_ERROR
    /\ "quizCreate" \in issued
    /\ Len(tasks) = NumPrompts
    /\ \A a \in DOMAIN tasks : tasks[a].n > 0
    /\ quizzes[kid] = NoQuiz

\* C24 (as claimed): the decision the cache holds for an origin does not
\* depend on the order in which the robots.txt fetches of the crawl tasks
\* settle: a fetch that settles when the origin has a decision stores that
\* same decision.
C24_RaceHarmless ==
    [][\A o \in Origins :
          (robotsCache[o] # "none" /\ robotsCache'[o] # "none") =>
             robotsCache'[o] = robotsCache[o]]_vars

\* C25 (as claimed): for a keyword without publish date no search, crawl,
\* content generation or summary call is issued, and the failure is
\* KEYWORD_DATE_NOT_EXISTS raised ahead of them.
C25_PublishDateFirst ==
    (pc # "idle" /\ keyword[kid] = "nodate") =>
        /\ issued \cap {"search", "robots", "page", "genContent", "genSummary"} = {}
        /\ "publishDate" \in issued => result = KEYWORD_DATE_NOT_EXISTS

\* C26: when every awaited call settles, a running invocation ends (with
\* success or with a failure), and a crawl batch is joined: a robots.txt or
\* page fetch that timed out has ended its task with null.
C26_Terminates ==
    /\ Running ~> pc = "done"
    /\ pc = "crawl" ~> pc = "rank"

C26_Witness ==
    /\ pc = "rank"
    /\ Len(crawl) = 2
    /\ \A i \in DOMAIN crawl : crawl[i].robots = "abort" /\ crawl[i].pc = "done"
    /\ validDocs = <<>>

\* C27 (as claimed): with two overlapping invocations for one keyword the
\* keyword has at most five articles: at most one of them commits.
C27_AtMostFive ==
    /\ articles[OverlapKeyword] <= NumPrompts
    /\ Cardinality({w \in DOMAIN jobs : jobs[w].result = "committed"}) <= 1

\* C28 (as claimed): once the index is built, the token count and the term
\* frequencies that search reads for a document (under its title) are those of
\* the tokens of that document's own content.
C28_OwnContent ==
    bm25Service = "built" =>
        \A i \in DOMAIN documents :
            LET tokens == tokenize(documents[i].content)
            IN /\ docLengths[documents[i].title] = Len(tokens)
               /\ termFrequencies[documents[i].title] = termFreq(tokens)

====
